---- MODULE Spec2Model ----
(***************************************************************************)
(* HairStock: the inventory consistency engine of the DataProvider         *)
(* (src/unnamed/part_002) and the StockAdjustment page                     *)
(* (src/lib/supabase.ts, second half), against a remote relational store.  *)
(*                                                                         *)
(* The store holds three relations (warehouses, products, transactions).   *)
(* The client keeps in-memory caches of them.  Every store call is an      *)
(* await: a mutation is modelled as one action per store call, and each    *)
(* call ends "ok", with an error result ("error") or by rejecting          *)
(* ("throw", what the handlers' try/catch blocks are there for).           *)
(***************************************************************************)
EXTENDS Integers, Sequences, FiniteSets, TLC

\* ------------------------------------------------------------- bounds
MaxProducts == 2      \* products ever created
MaxTx == 2            \* transactions ever written
MaxWarehouses == 2    \* warehouses ever created
MaxQty == 3           \* largest quantity a product reaches
MaxAmount == 2        \* largest amount typed on the keypad / initial quantity
MaxMounts == 5        \* page components ever mounted
MaxHist == 2          \* transactions handed to the opening stock computation
MaxTime == 2          \* latest created_at and month start (days 0..MaxTime)
MaxOut == 22          \* largest monthly consumption handed to the trend computation
MaxSeed == 4          \* largest quantity of the product a dated session starts with
MaxReads == 4         \* reads of products and transactions in flight together

VARIABLES
    sWarehouses,        \* store relation warehouses: set of [id, is_default]
    sProducts,          \* store relation products: set of [id, warehouse_id, quantity]
    sTx,                \* store relation transactions: set of [id, product_id, warehouse_id, type,
                        \* amount, created_at]
    nextId,             \* ids the store hands out: [w |-> , p |-> , t |-> ]
    warehouses,         \* useState warehouses: sequence of [id, is_default]
    warehouseEnabled,   \* useState warehouseEnabled
    currentWarehouseId, \* useState currentWarehouseId, persisted in localStorage (0: '')
    products,           \* useState products: set of [id, warehouse_id, quantity]
    transactions,       \* useState transactions: sequence, loaded newest first
    allTransactions,    \* useState allTransactions: sequence, loaded oldest first
    loadPc,             \* per caller of fetchWarehouses: its position
    pc,                 \* position of the mutation in flight ("idle": none, "done": returned)
    op,                 \* the mutation in flight: its arguments and locals
    result,             \* what the mutation returned to its caller
    last,               \* the transaction the latest Adjust Stock wrote, while nothing has run since
    configured,         \* isSupabaseConfigured(): the build has real store credentials
    page,               \* the page component mounted: [name, id, from]
    busy,               \* the mounted page's useState flags: isSubmitting, isDeleting, isSaving
    inflight,           \* the handlers between their first store call and their result
    opening,            \* the History page's opening stock tab: its inputs and its rows
    stats,              \* the ProductPerformance page: one product's inputs and its row
    customDate,         \* StockAdjustment's useState customDate: the day the adjustment is dated
    reads               \* fetchProducts / fetchTransactions calls between query and response

storeVars == <<sWarehouses, sProducts, sTx, nextId>>
whVars == <<warehouses, warehouseEnabled, currentWarehouseId>>
cacheVars == <<products, transactions, allTransactions>>
uiVars == <<page, busy, inflight>>
viewVars == <<stats, customDate, reads>>
auxVars == <<configured, page, busy, inflight, opening, viewVars>>
vars == <<sWarehouses, sProducts, sTx, nextId, warehouses, warehouseEnabled,
          currentWarehouseId, products, transactions, allTransactions, loadPc, pc, op,
          result, last, configured, page, busy, inflight, opening, stats, customDate,
          reads>>

\* ------------------------------------------------------------- helpers
\* How a store call ends: "error" is an error result, "throw" a rejected call.  Where
\* the code treats both alike (it throws the error result itself) only "error" is drawn.
Outcomes == {"ok", "error"}
OutcomesLoad == {"ok", "absent", "error"}
OutcomesThrow == {"ok", "error", "throw"}

\* The two callers of fetchWarehouses: the provider's effect on login and the
\* warehouse page's effect on mount.  loadPc is "none" before a caller's first load,
\* "provision" between its select and its insert of the default warehouse, and after the
\* load how its select ended: "loaded", "absent" (the warehouses relation does not
\* exist: error 42P01) or "failed" (any other error).
Loaders == {"provider", "page"}

Max(a, b) == IF a >= b THEN a ELSE b
Min(a, b) == IF a <= b THEN a ELSE b

Range(s) == {s[i] : i \in 1..Len(s)}

RECURSIVE OrderAsc(_)
\* Rows ordered by creation (the store hands out ids in creation order), oldest first.
OrderAsc(S) ==
    IF S = {} THEN <<>>
    ELSE LET x == CHOOSE y \in S : \A z \in S : y.id <= z.id
         IN <<x>> \o OrderAsc(S \ {x})

RECURSIVE OrderDesc(_)
\* Rows ordered by creation, newest first.
OrderDesc(S) ==
    IF S = {} THEN <<>>
    ELSE LET x == CHOOSE y \in S : \A z \in S : y.id >= z.id
         IN <<x>> \o OrderDesc(S \ {x})

\* Time is counted in periods of 30 days, 0..MaxTime; the session runs in the last one.
Today == MaxTime

\* x was created after y: a later created_at; of two rows of the same period the one
\* written later.
After(x, y) == x.created_at > y.created_at \/ (x.created_at = y.created_at /\ x.id >= y.id)

RECURSIVE OrderByCreatedAtAsc(_)
\* .order('created_at', { ascending: true })
OrderByCreatedAtAsc(S) ==
    IF S = {} THEN <<>>
    ELSE LET x == CHOOSE y \in S : \A z \in S : After(z, y)
         IN <<x>> \o OrderByCreatedAtAsc(S \ {x})

RECURSIVE OrderByCreatedAtDesc(_)
\* .order('created_at', { ascending: false })
OrderByCreatedAtDesc(S) ==
    IF S = {} THEN <<>>
    ELSE LET x == CHOOSE y \in S : \A z \in S : After(y, z)
         IN <<x>> \o OrderByCreatedAtDesc(S \ {x})

NoWarehouse == [id |-> 0, is_default |-> FALSE]

\* cur: the cached quantity read at the start; fin: the quantity written first;
\* act: the amount recorded; wh: the scope captured; found: the cached product exists;
\* Kept to state the properties and read by no action: pre, the STORED quantity of the
\* product at the start (-1: no row); ntx, the number of stored transactions of the
\* product at the start; had, the transaction to delete was a stored row at the start;
\* comp, how the compensating write ended ("none": not issued); adj, for the deletion of
\* the transaction the Adjust Stock just before wrote, the quantity that adjustment
\* started from (-1 otherwise); seed, how the write of the initial transaction ended
\* ("none": not issued); att, the operation went on to a store call (it was not turned
\* down before one).
NoOp == [name |-> "none", id |-> 0, pid |-> 0, type |-> "none", amount |-> 0,
         cur |-> 0, fin |-> 0, act |-> 0, wh |-> 0, found |-> FALSE, pre |-> 0,
         ntx |-> 0, had |-> FALSE, comp |-> "none", adj |-> -1, seed |-> "none",
         att |-> FALSE]

NoResult == [ok |-> TRUE, error |-> "none"]

\* last is kept to state the properties: id, the transaction a successful Adjust Stock
\* has just written (0: none, or something has run since); cur, the quantity that
\* adjustment started from.  It is read only to fill op.adj.
NoLast == [id |-> 0, cur |-> 0]
Success == [ok |-> TRUE, error |-> "none"]
Failure(e) == [ok |-> FALSE, error |-> e]

\* The opening stock tab: products and transactions as useData() hands them over (of a
\* product its id and quantity, of a transaction product_id, type, amount, created_at),
\* openingMonth, and the rows of openingStockData (<<>>: not computed yet).
NoOpening == [products |-> <<>>, transactions |-> <<>>, openingMonth |-> 0, rows |-> <<>>]

\* The ProductPerformance page not opened: no inputs, no row computed.
NoRow == [trend |-> "none", trendValue |-> 0, turnoverRate |-> "none"]
NoStats == [mounted |-> FALSE, lastMonthOut |-> 0, thisMonthOut |-> 0, row |-> NoRow]

\* A page just mounted: every flag starts false.
NoBusy == [isSubmitting |-> FALSE, isDeleting |-> FALSE, isSaving |-> FALSE]

\* ------------------------------------------------------------- the store
\* select * from warehouses order by is_default desc, created_at asc
WarehouseQuery ==
    OrderAsc({w \in sWarehouses : w.is_default}) \o OrderAsc({w \in sWarehouses : ~w.is_default})

\* update products set quantity = q where id = productId (no row: no error)
StoreSetQuantity(productId, q) ==
    {IF r.id = productId THEN [r EXCEPT !.quantity = q] ELSE r : r \in sProducts}

\* The stored quantity of a product, -1 when the store holds no such row.
StoredQuantity(productId) ==
    IF \E r \in sProducts : r.id = productId
    THEN (CHOOSE r \in sProducts : r.id = productId).quantity
    ELSE -1

\* A store call can end "ok" only with real credentials: without them the client is built
\* on a placeholder URL and every call fails.
StoreCall(o) == configured \/ o # "ok"

\* ------------------------------------------------------------- warehouse scope
\* A variant of the resolution below that looks for the persisted selection only.
CurrentWarehouseOfPersistedOnly(ws, cid) ==
    IF \E i \in 1..Len(ws) : ws[i].id = cid
    THEN ws[CHOOSE i \in 1..Len(ws) : ws[i].id = cid /\ \A j \in 1..(i-1) : ws[j].id # cid]
    ELSE NoWarehouse

\* warehouses.find(w => w.id === currentWarehouseId) || warehouses.find(w => w.is_default)
\*   || warehouses[0] || null
CurrentWarehouseOf(ws, cid) ==
    IF \E i \in 1..Len(ws) : ws[i].id = cid
    THEN ws[CHOOSE i \in 1..Len(ws) : ws[i].id = cid /\ \A j \in 1..(i-1) : ws[j].id # cid]
    ELSE IF \E i \in 1..Len(ws) : ws[i].is_default
    THEN ws[CHOOSE i \in 1..Len(ws) : ws[i].is_default /\ \A j \in 1..(i-1) : ~ws[j].is_default]
    ELSE IF Len(ws) > 0 THEN ws[1]
    ELSE NoWarehouse

currentWarehouse == CurrentWarehouseOf(warehouses, currentWarehouseId)

\* The warehouse id reads filter on and writes carry: warehouseEnabled && currentWarehouse
\* (0: no filter, no warehouse_id written).
ScopeOf(ws, enabled, cid) ==
    IF enabled /\ CurrentWarehouseOf(ws, cid).id # 0 THEN CurrentWarehouseOf(ws, cid).id ELSE 0

Scope == ScopeOf(warehouses, warehouseEnabled, currentWarehouseId)

\* ------------------------------------------------------------- reads
\* fetchProducts: the rows of the scope, or [] when the select fails.
fetchProducts(scope, ok) ==
    IF ok /\ configured THEN {p \in sProducts : scope = 0 \/ p.warehouse_id = scope} ELSE {}

\* fetchTransactions: the rows of the scope, newest first, or [] when the select fails.
fetchTransactions(scope, ok) ==
    IF ok /\ configured
    THEN OrderByCreatedAtDesc({t \in sTx : scope = 0 \/ t.warehouse_id = scope})
    ELSE <<>>

\* The provider's effect: fetchProducts() and fetchTransactions() against the scope in
\* force after the step, each select succeeding or failing on its own.
ReloadScoped(scope, okP, okT) ==
    /\ products' = fetchProducts(scope, okP)
    /\ transactions' = fetchTransactions(scope, okT)

\* The same where nothing else touches the caches: allTransactions is loaded at login
\* only and stays as it is.
Reload(scope, okP, okT) ==
    /\ ReloadScoped(scope, okP, okT)
    /\ UNCHANGED allTransactions

\* No load of the warehouse list is in flight.
LoadersIdle == \A l \in Loaders : loadPc[l] # "provision"

\* The caller's load is over.
Loaded(l) == loadPc[l] \in {"loaded", "absent", "failed"}

\* The stored transactions of a product.
TransactionsOf(productId) == {t \in sTx : t.product_id = productId}

\* ------------------------------------------------------------- initial state
\* A tenant that has just signed up: nothing stored, nothing cached.
InitProvider ==
    /\ sWarehouses = {}
    /\ sProducts = {}
    /\ sTx = {}
    /\ nextId = [w |-> 1, p |-> 1, t |-> 1]
    /\ warehouses = <<>>
    /\ warehouseEnabled = FALSE
    /\ currentWarehouseId = 0
    /\ products = {}
    /\ transactions = <<>>
    /\ allTransactions = <<>>
    /\ customDate = Today
    /\ reads = {}
    /\ loadPc = [l \in Loaders |-> "none"]
    /\ pc = "idle"
    /\ op = NoOp
    /\ result = NoResult
    /\ last = NoLast
    /\ configured \in BOOLEAN
    /\ page = [name |-> "home", id |-> 1, from |-> "none"]
    /\ busy = NoBusy
    /\ inflight = {}

\* The History page not opened.
Init == InitProvider /\ opening = NoOpening /\ stats = NoStats

\* ------------------------------------------------------------- engine helpers
\* updateProductQuantity: the store update, then the cache map; false on any failure
\* (an error result is thrown and caught inside, like a rejected call).
updateProductQuantity(productId, newQuantity, o) ==
    IF o = "ok"
    THEN /\ sProducts' = StoreSetQuantity(productId, newQuantity)
         /\ products' = {IF p.id = productId THEN [p EXCEPT !.quantity = newQuantity] ELSE p
                          : p \in products}
    ELSE UNCHANGED <<sProducts, products>>

\* createTransaction: the store insert, dated by the caller (the store's now() is the
\* caller's Today), then the new row is put in front of the cached list and at the end
\* of the full list; null on any failure.
createTransaction(productId, type, amount, created_at, scope, o) ==
    IF o = "ok"
    THEN LET newTransaction == [id |-> nextId.t, product_id |-> productId,
                                warehouse_id |-> scope, type |-> type, amount |-> amount,
                                created_at |-> created_at]
         IN /\ sTx' = sTx \cup {newTransaction}
            /\ nextId' = [nextId EXCEPT !.t = @ + 1]
            /\ transactions' = <<newTransaction>> \o transactions
            /\ allTransactions' = allTransactions \o <<newTransaction>>
    ELSE UNCHANGED <<sTx, nextId, transactions, allTransactions>>

\* The caller has the result: its finally block releases the page, and the next
\* operation can start.
Return ==
    /\ UNCHANGED last
    /\ UNCHANGED auxVars
    /\ pc = "done"
    /\ pc' = "idle"
    /\ op' = NoOp
    /\ result' = NoResult
    /\ UNCHANGED <<storeVars, whVars, cacheVars, loadPc>>

\* ------------------------------------------------------------- Create Product
\* createProduct up to its first store call: the product insert.  Without credentials it
\* returns its configuration error before any call.
createProduct(qty, o) ==
    /\ last' = NoLast
    /\ UNCHANGED auxVars
    /\ pc = "idle" /\ LoadersIdle
    /\ nextId.p <= MaxProducts
    /\ qty > 0 => nextId.t <= MaxTx
    /\ IF ~configured
       THEN /\ o = "ok"
            /\ op' = [NoOp EXCEPT !.name = "createProduct", !.amount = qty, !.wh = Scope]
            /\ pc' = "done"
            /\ result' = Failure("not_configured")
            /\ UNCHANGED <<sProducts, nextId, products>>
       ELSE IF o = "ok"
       THEN LET newProduct == [id |-> nextId.p, warehouse_id |-> Scope, quantity |-> qty]
            IN /\ sProducts' = sProducts \cup {newProduct}
               /\ nextId' = [nextId EXCEPT !.p = @ + 1]
               /\ products' = products \cup {newProduct}
               /\ op' = [NoOp EXCEPT !.name = "createProduct", !.id = newProduct.id,
                                     !.pid = newProduct.id, !.amount = qty, !.wh = Scope,
                                     !.att = TRUE]
               /\ pc' = IF qty > 0 THEN "cp_tx" ELSE "done"
               /\ result' = Success
       ELSE /\ op' = [NoOp EXCEPT !.name = "createProduct", !.amount = qty, !.wh = Scope,
                                  !.att = TRUE]
            /\ pc' = "done"
            /\ result' = Failure("create_failed")
            /\ UNCHANGED <<sProducts, nextId, products>>
    /\ UNCHANGED <<sWarehouses, sTx, whVars, transactions, allTransactions, loadPc>>

\* A variant of the step below that writes the initial transaction without a warehouse id.
createProductTxUnscoped(o) ==
    /\ UNCHANGED last
    /\ UNCHANGED auxVars
    /\ StoreCall(o)
    /\ pc = "cp_tx"
    /\ createTransaction(op.pid, "in", op.amount, Today, 0, o)
    /\ op' = [op EXCEPT !.seed = o]
    /\ pc' = "done"
    /\ result' = Success
    /\ UNCHANGED <<sWarehouses, sProducts, whVars, products, loadPc>>

\* createProduct's second store call: the initial 'in' transaction.  A failure is only
\* logged: the product is returned with error: null either way.
createProductTx(o) ==
    /\ UNCHANGED last
    /\ UNCHANGED auxVars
    /\ StoreCall(o)
    /\ pc = "cp_tx"
    /\ createTransaction(op.pid, "in", op.amount, Today, op.wh, o)
    /\ op' = [op EXCEPT !.seed = o]
    /\ pc' = "done"
    /\ result' = Success
    /\ UNCHANGED <<sWarehouses, sProducts, whVars, products, loadPc>>

\* ------------------------------------------------------------- Adjust Stock
\* Variants of the two page computations below with the clamp left out; the properties
\* of the clamped withdrawal are checked against them as well.
finalStockUnclamped(operation, currentStock, adjustAmount) ==
    IF operation = "add" THEN currentStock + adjustAmount ELSE currentStock - adjustAmount

actualAmountRequested(operation, currentStock, adjustAmount) == adjustAmount

\* finalStock of the StockAdjustment page.
finalStock(operation, currentStock, adjustAmount) ==
    IF operation = "add" THEN currentStock + adjustAmount
    ELSE Max(0, currentStock - adjustAmount)

\* actualAmount of handleConfirmAction.
actualAmount(operation, currentStock, adjustAmount) ==
    IF operation = "subtract" THEN Min(adjustAmount, currentStock) ELSE adjustAmount

\* A variant of the step below that goes on to the transaction write whatever
\* updateProductQuantity returned.
handleConfirmActionUnchecked(p, operation, adjustAmount, o) ==
    /\ last' = NoLast
    /\ UNCHANGED auxVars
    /\ pc = "idle" /\ LoadersIdle
    /\ nextId.t <= MaxTx
    /\ finalStock(operation, p.quantity, adjustAmount) <= MaxQty
    /\ op' = [name |-> "adjust", id |-> p.id, pid |-> p.id,
              type |-> IF operation = "add" THEN "in" ELSE "out",
              amount |-> adjustAmount, cur |-> p.quantity,
              fin |-> finalStock(operation, p.quantity, adjustAmount),
              act |-> actualAmount(operation, p.quantity, adjustAmount),
              wh |-> Scope, found |-> TRUE, pre |-> StoredQuantity(p.id),
              ntx |-> Cardinality(TransactionsOf(p.id)), had |-> FALSE, comp |-> "none",
              adj |-> -1, seed |-> "none", att |-> TRUE]
    /\ StoreCall(o)
    /\ updateProductQuantity(p.id, finalStock(operation, p.quantity, adjustAmount), o)
    /\ pc' = "adj_tx"
    /\ result' = IF o = "ok" THEN Success ELSE Failure("update_failed")
    /\ UNCHANGED <<sWarehouses, sTx, nextId, whVars, transactions, allTransactions, loadPc>>


\* handleConfirmAction up to its first store call: updateProductQuantity(product.id, finalStock).
\* The page's product is the cached row; adjustAmount is not 0 (handleUpdateClick).
handleConfirmAction(p, operation, adjustAmount, o) ==
    /\ last' = NoLast
    /\ UNCHANGED auxVars
    /\ pc = "idle" /\ LoadersIdle
    /\ nextId.t <= MaxTx
    /\ finalStock(operation, p.quantity, adjustAmount) <= MaxQty
    /\ op' = [name |-> "adjust", id |-> p.id, pid |-> p.id,
              type |-> IF operation = "add" THEN "in" ELSE "out",
              amount |-> adjustAmount, cur |-> p.quantity,
              fin |-> finalStock(operation, p.quantity, adjustAmount),
              act |-> actualAmount(operation, p.quantity, adjustAmount),
              wh |-> Scope, found |-> TRUE, pre |-> StoredQuantity(p.id),
              ntx |-> Cardinality(TransactionsOf(p.id)), had |-> FALSE, comp |-> "none",
              adj |-> -1, seed |-> "none", att |-> TRUE]
    /\ StoreCall(o)
    /\ updateProductQuantity(p.id, finalStock(operation, p.quantity, adjustAmount), o)
    /\ pc' = IF o = "ok" THEN "adj_tx" ELSE "done"
    /\ result' = IF o = "ok" THEN Success ELSE Failure("update_failed")
    /\ UNCHANGED <<sWarehouses, sTx, nextId, whVars, transactions, allTransactions, loadPc>>

\* handleConfirmAction's second store call: createTransaction with the effective amount.
handleConfirmActionTx(o) ==
    /\ last' = IF o = "ok" THEN [id |-> nextId.t, cur |-> op.cur] ELSE NoLast
    /\ UNCHANGED auxVars
    /\ StoreCall(o)
    /\ pc = "adj_tx"
    /\ createTransaction(op.id, op.type, op.act, customDate, op.wh, o)
    /\ pc' = IF o = "ok" THEN "done" ELSE "adj_rollback"
    /\ UNCHANGED <<sWarehouses, sProducts, whVars, products, loadPc, op, result>>

\* A variant of the compensation below that issues no write.
handleConfirmActionNoRollback(o) ==
    /\ UNCHANGED last
    /\ UNCHANGED auxVars
    /\ pc = "adj_rollback"
    /\ op' = [op EXCEPT !.comp = o]
    /\ pc' = "done"
    /\ result' = Failure("rolled_back")
    /\ UNCHANGED <<storeVars, whVars, cacheVars, loadPc>>

\* handleConfirmAction's compensation: updateProductQuantity(product.id, currentStock),
\* its result not looked at, then the 'rolled back' error.
handleConfirmActionRollback(o) ==
    /\ UNCHANGED last
    /\ UNCHANGED auxVars
    /\ StoreCall(o)
    /\ pc = "adj_rollback"
    /\ updateProductQuantity(op.id, op.cur, o)
    /\ op' = [op EXCEPT !.comp = o]
    /\ pc' = "done"
    /\ result' = Failure("rolled_back")
    /\ UNCHANGED <<sWarehouses, sTx, nextId, whVars, transactions, allTransactions, loadPc>>

\* Settings.handleSync: fetchProducts() and fetchTransactions() on demand.
handleSync(okP, okT) ==
    /\ last' = NoLast
    /\ UNCHANGED auxVars
    /\ pc = "idle" /\ LoadersIdle
    /\ Reload(Scope, okP, okT)
    /\ UNCHANGED <<storeVars, whVars, loadPc, pc, op, result>>

\* ------------------------------------------------------------- Delete Product
\* A variant of the store call below that deletes nothing.
StoreDeleteNoTransactions(productId) == sTx

\* delete from transactions where product_id = productId
StoreDeleteTransactionsOf(productId) == {t \in sTx : t.product_id # productId}

\* deleteProduct up to its first store call: delete from transactions where
\* product_id = productId.  The page's product is the cached row.
deleteProduct(p, o) ==
    /\ last' = NoLast
    /\ UNCHANGED auxVars
    /\ StoreCall(o)
    /\ pc = "idle" /\ LoadersIdle
    /\ op' = [NoOp EXCEPT !.name = "deleteProduct", !.id = p.id, !.pid = p.id,
                          !.cur = p.quantity, !.found = TRUE, !.pre = StoredQuantity(p.id),
                          !.att = TRUE,
                          !.ntx = Cardinality(TransactionsOf(p.id))]
    /\ sTx' = IF o = "ok" THEN StoreDeleteTransactionsOf(p.id) ELSE sTx
    /\ pc' = IF o = "ok" THEN "dp_prod" ELSE "done"
    /\ result' = IF o = "ok" THEN Success ELSE Failure("delete_failed")
    /\ UNCHANGED <<sWarehouses, sProducts, nextId, whVars, cacheVars, loadPc>>

\* deleteProduct's second store call: delete from products where id = productId, then
\* the caches drop the product and its transactions.
deleteProductRow(o) ==
    /\ UNCHANGED last
    /\ UNCHANGED auxVars
    /\ StoreCall(o)
    /\ pc = "dp_prod"
    /\ IF o = "ok"
       THEN /\ sProducts' = {r \in sProducts : r.id # op.id}
            /\ products' = {q \in products : q.id # op.id}
            /\ transactions' = SelectSeq(transactions, LAMBDA t : t.product_id # op.id)
            /\ allTransactions' = SelectSeq(allTransactions, LAMBDA t : t.product_id # op.id)
            /\ result' = Success
       ELSE /\ result' = Failure("delete_failed")
            /\ UNCHANGED <<sProducts, products, transactions, allTransactions>>
    /\ pc' = "done"
    /\ UNCHANGED <<sWarehouses, sTx, nextId, whVars, loadPc, op>>

\* ------------------------------------------------------------- Delete Transaction
\* A variant of newQuantity below without the floor.
newQuantityUnfloored(type, amount, quantity) ==
    quantity + (IF type = "in" THEN -amount ELSE amount)

\* A variant of newQuantity below that applies the amount a second time instead of
\* taking it back.
newQuantityReapplied(type, amount, quantity) ==
    Max(0, quantity + (IF type = "in" THEN amount ELSE -amount))

\* newQuantity of deleteTransaction: Math.max(0, product.quantity + adjustment).
newQuantity(type, amount, quantity) ==
    Max(0, quantity + (IF type = "in" THEN -amount ELSE amount))

\* deleteTransaction up to its first store call.  The transaction and its product are
\* looked up in the caches; with a cached product the first call is the quantity
\* write, without one the quantity step is skipped.
deleteTransaction(t, o) ==
    /\ last' = NoLast
    /\ UNCHANGED auxVars
    /\ pc = "idle" /\ LoadersIdle
    /\ LET found == \E q \in products : q.id = t.product_id
           product == IF found THEN CHOOSE q \in products : q.id = t.product_id
                      ELSE [id |-> 0, warehouse_id |-> 0, quantity |-> 0]
       IN /\ newQuantity(t.type, t.amount, product.quantity) <= MaxQty
          /\ op' = [name |-> "deleteTransaction", id |-> t.id, pid |-> t.product_id,
                    type |-> t.type, amount |-> t.amount, cur |-> product.quantity,
                    fin |-> newQuantity(t.type, t.amount, product.quantity), act |-> 0,
                    wh |-> 0, found |-> found, pre |-> StoredQuantity(t.product_id),
                    ntx |-> Cardinality(TransactionsOf(t.product_id)),
                    had |-> t \in sTx, comp |-> "none",
                    adj |-> IF last.id = t.id THEN last.cur ELSE -1, seed |-> "none",
                    att |-> TRUE]
          /\ IF found
             THEN /\ StoreCall(o)
                  /\ IF o = "ok"
                     THEN /\ sProducts' = StoreSetQuantity(product.id,
                                              newQuantity(t.type, t.amount, product.quantity))
                          /\ products' = {IF q.id = product.id
                                          THEN [q EXCEPT !.quantity =
                                                    newQuantity(t.type, t.amount, product.quantity)]
                                          ELSE q : q \in products}
                     ELSE UNCHANGED <<sProducts, products>>
                  /\ pc' = IF o = "ok" THEN "dt_del" ELSE "done"
                  /\ result' = IF o = "ok" THEN Success
                               ELSE IF o = "error" THEN Failure("restore_failed")
                               ELSE Failure("exception")
             ELSE /\ o = "ok"
                  /\ pc' = "dt_del"
                  /\ result' = Success
                  /\ UNCHANGED <<sProducts, products>>
    /\ UNCHANGED <<sWarehouses, sTx, nextId, whVars, transactions, allTransactions, loadPc>>

\* deleteTransaction's row delete.  An error result starts the rollback (when there is
\* a product); a rejected call lands in the catch block, which compensates nothing.
deleteTransactionRow(o) ==
    /\ UNCHANGED last
    /\ UNCHANGED auxVars
    /\ StoreCall(o)
    /\ pc = "dt_del"
    /\ IF o = "ok"
       THEN /\ sTx' = {x \in sTx : x.id # op.id}
            /\ transactions' = SelectSeq(transactions, LAMBDA x : x.id # op.id)
            /\ allTransactions' = SelectSeq(allTransactions, LAMBDA x : x.id # op.id)
            /\ pc' = "done"
            /\ result' = Success
       ELSE /\ pc' = IF o = "error" /\ op.found THEN "dt_rollback" ELSE "done"
            /\ result' = IF o = "error" THEN Failure("rolled_back") ELSE Failure("exception")
            /\ UNCHANGED <<sTx, transactions, allTransactions>>
    /\ UNCHANGED <<sWarehouses, sProducts, nextId, whVars, products, loadPc, op>>

\* deleteTransaction's compensation: the store is asked to write product.quantity back
\* (the result is not looked at), the cache is set back, 'rolled back' is returned.  A
\* rejected call skips the cache and returns the catch block's error.
deleteTransactionRollback(o) ==
    /\ UNCHANGED last
    /\ UNCHANGED auxVars
    /\ StoreCall(o)
    /\ pc = "dt_rollback"
    /\ sProducts' = IF o = "ok" THEN StoreSetQuantity(op.pid, op.cur) ELSE sProducts
    /\ products' = IF o = "throw" THEN products
                   ELSE {IF q.id = op.pid THEN [q EXCEPT !.quantity = op.cur] ELSE q
                          : q \in products}
    /\ op' = [op EXCEPT !.comp = o]
    /\ pc' = "done"
    /\ result' = IF o = "throw" THEN Failure("exception") ELSE Failure("rolled_back")
    /\ UNCHANGED <<sWarehouses, sTx, nextId, whVars, transactions, allTransactions, loadPc>>

\* ------------------------------------------------------------- warehouses
\* setCurrentWarehouseId from the warehouse selector (shown when warehousing is enabled),
\* then the provider's effect reloads products and transactions for the new scope.
setCurrentWarehouseId(id, okP, okT) ==
    /\ last' = NoLast
    /\ UNCHANGED auxVars
    /\ pc = "idle" /\ LoadersIdle
    /\ warehouseEnabled
    /\ \E i \in 1..Len(warehouses) : warehouses[i].id = id
    /\ id # currentWarehouse.id
    /\ currentWarehouseId' = id
    /\ Reload(ScopeOf(warehouses, warehouseEnabled, id), okP, okT)
    /\ UNCHANGED <<storeVars, warehouses, warehouseEnabled, loadPc, pc, op, result>>

\* The selection fetchWarehouses falls back to: kept when it names a listed warehouse,
\* else the default, else the first.
FallbackSelection(warehouseList, cid) ==
    IF cid = 0 \/ ~\E i \in 1..Len(warehouseList) : warehouseList[i].id = cid
    THEN CurrentWarehouseOf(warehouseList, 0).id
    ELSE cid

\* fetchWarehouses up to its first store call, the select.  A failed select disables
\* warehousing, whether the relation is absent (the early return) or the error is
\* another one (thrown into the catch block); an empty list goes on to create the default warehouse; otherwise the
\* load is over and the provider's effect reloads products and transactions.
fetchWarehouses(l, o, okP, okT) ==
    /\ last' = NoLast
    /\ UNCHANGED auxVars
    /\ StoreCall(o)
    /\ pc = "idle" /\ loadPc[l] # "provision"
    /\ IF o = "ok"
       THEN /\ warehouseEnabled' = TRUE
            /\ warehouses' = WarehouseQuery
            /\ IF Len(WarehouseQuery) = 0
               THEN /\ nextId.w + Cardinality({k \in Loaders : loadPc[k] = "provision"})
                          <= MaxWarehouses
                    /\ okP /\ okT
                    /\ loadPc' = [loadPc EXCEPT ![l] = "provision"]
                    /\ UNCHANGED <<currentWarehouseId, cacheVars>>
               ELSE /\ currentWarehouseId' = FallbackSelection(WarehouseQuery, currentWarehouseId)
                    /\ Reload(ScopeOf(WarehouseQuery, TRUE,
                                      FallbackSelection(WarehouseQuery, currentWarehouseId)),
                              okP, okT)
                    /\ loadPc' = [loadPc EXCEPT ![l] = "loaded"]
       ELSE /\ o = "absent" => (configured /\ sWarehouses = {})
            /\ warehouseEnabled' = FALSE
            /\ warehouses' = <<>>
            /\ Reload(0, okP, okT)
            /\ loadPc' = [loadPc EXCEPT ![l] = IF o = "absent" THEN "absent" ELSE "failed"]
            /\ UNCHANGED currentWarehouseId
    /\ UNCHANGED <<storeVars, pc, op, result>>

\* fetchWarehouses' second store call: the insert of the default warehouse.  Then the
\* load is over and the provider's effect reloads products and transactions.
fetchWarehousesProvision(l, o, okP, okT) ==
    /\ UNCHANGED last
    /\ UNCHANGED auxVars
    /\ StoreCall(o)
    /\ loadPc[l] = "provision"
    /\ IF o = "ok"
       THEN LET newWarehouse == [id |-> nextId.w, is_default |-> TRUE]
            IN /\ sWarehouses' = sWarehouses \cup {newWarehouse}
               /\ nextId' = [nextId EXCEPT !.w = @ + 1]
               /\ warehouses' = <<newWarehouse>>
               /\ currentWarehouseId' = newWarehouse.id
               /\ Reload(ScopeOf(<<newWarehouse>>, warehouseEnabled, newWarehouse.id), okP, okT)
       ELSE /\ Reload(Scope, okP, okT)
            /\ UNCHANGED <<sWarehouses, nextId, warehouses, currentWarehouseId>>
    /\ loadPc' = [loadPc EXCEPT ![l] = "loaded"]
    /\ UNCHANGED <<sProducts, sTx, warehouseEnabled, pc, op, result>>

\* createWarehouse as WarehouseManage.handleSave calls it (no is_default given), on the
\* warehouse page, whose effect on mount has loaded the list: one
\* store call, the insert.  The first cached warehouse becomes the selection and
\* enables warehousing, which makes the provider's effect reload.
createWarehouse(o, okP, okT) ==
    /\ last' = NoLast
    /\ UNCHANGED auxVars
    /\ pc = "idle" /\ LoadersIdle /\ Loaded("page")
    /\ nextId.w <= MaxWarehouses
    /\ op' = [NoOp EXCEPT !.name = "createWarehouse",
                          !.id = IF o = "ok" /\ configured THEN nextId.w ELSE 0,
                          !.att = configured]
    /\ pc' = "done"
    /\ IF ~configured
       THEN /\ o = "ok" /\ okP /\ okT
            /\ result' = Failure("not_configured")
            /\ UNCHANGED <<sWarehouses, nextId, whVars, cacheVars>>
       ELSE IF o = "ok"
       THEN LET newWarehouse == [id |-> nextId.w, is_default |-> FALSE]
            IN /\ sWarehouses' = sWarehouses \cup {newWarehouse}
               /\ nextId' = [nextId EXCEPT !.w = @ + 1]
               /\ warehouses' = Append(warehouses, newWarehouse)
               /\ result' = Success
               /\ IF Len(warehouses) = 0
                  THEN /\ currentWarehouseId' = newWarehouse.id
                       /\ warehouseEnabled' = TRUE
                       /\ Reload(newWarehouse.id, okP, okT)
                  ELSE /\ okP /\ okT
                       /\ UNCHANGED <<currentWarehouseId, warehouseEnabled, cacheVars>>
       ELSE /\ okP /\ okT
            /\ result' = Failure("create_failed")
            /\ UNCHANGED <<sWarehouses, nextId, whVars, cacheVars>>
    /\ UNCHANGED <<sProducts, sTx, loadPc>>

\* A variant of the rejections below without the test of is_default.
deleteWarehouseRejectionNoDefault(id) ==
    LET found == \E i \in 1..Len(warehouses) : warehouses[i].id = id
    IN IF ~warehouseEnabled THEN "not_enabled"
       ELSE IF ~found THEN "not_found"
       ELSE IF Len(warehouses) <= 1 THEN "last_warehouse"
       ELSE "none"

\* The pre-flight rejections of deleteWarehouse, in the order the code tests them
\* ("none": the delete goes ahead).
deleteWarehouseRejection(id) ==
    LET found == \E i \in 1..Len(warehouses) : warehouses[i].id = id
        warehouse == CurrentWarehouseOf(warehouses, id)
    IN IF ~warehouseEnabled THEN "not_enabled"
       ELSE IF ~found THEN "not_found"
       ELSE IF warehouse.is_default THEN "is_default"
       ELSE IF Len(warehouses) <= 1 THEN "last_warehouse"
       ELSE "none"

\* deleteWarehouse: the pre-flight rejections, else its first store call: delete from
\* transactions where warehouse_id = id.
deleteWarehouse(id, o) ==
    /\ last' = NoLast
    /\ UNCHANGED auxVars
    /\ pc = "idle" /\ LoadersIdle /\ Loaded("page")
    /\ op' = [NoOp EXCEPT !.name = "deleteWarehouse", !.id = id,
                          !.att = (deleteWarehouseRejection(id) = "none")]
    /\ LET rejection == deleteWarehouseRejection(id)
       IN IF rejection # "none"
          THEN /\ o = "ok"
               /\ pc' = "done"
               /\ result' = Failure(rejection)
               /\ UNCHANGED sTx
          ELSE /\ StoreCall(o)
               /\ sTx' = IF o = "ok" THEN {t \in sTx : t.warehouse_id # id} ELSE sTx
               /\ pc' = IF o = "ok" THEN "dw_prod" ELSE "done"
               /\ result' = IF o = "ok" THEN Success ELSE Failure("delete_failed")
    /\ UNCHANGED <<sWarehouses, sProducts, nextId, whVars, cacheVars, loadPc>>

\* deleteWarehouse's second store call: delete from products where warehouse_id = id.
deleteWarehouseProducts(o) ==
    /\ UNCHANGED last
    /\ UNCHANGED auxVars
    /\ StoreCall(o)
    /\ pc = "dw_prod"
    /\ sProducts' = IF o = "ok" THEN {r \in sProducts : r.warehouse_id # op.id} ELSE sProducts
    /\ pc' = IF o = "ok" THEN "dw_wh" ELSE "done"
    /\ result' = IF o = "ok" THEN Success ELSE Failure("delete_failed")
    /\ UNCHANGED <<sWarehouses, sTx, nextId, whVars, cacheVars, loadPc, op>>

\* deleteWarehouse's third store call: delete from warehouses where id = id, then the
\* caches drop the warehouse and its rows, and a deleted selection moves to the cached
\* default.  When the active warehouse changes the provider's effect reloads.
deleteWarehouseRow(o, okP, okT) ==
    /\ UNCHANGED last
    /\ UNCHANGED auxVars
    /\ StoreCall(o)
    /\ pc = "dw_wh"
    /\ pc' = "done"
    /\ IF o = "ok"
       THEN LET rest == SelectSeq(warehouses, LAMBDA w : w.id # op.id)
                hasDefault == \E i \in 1..Len(rest) : rest[i].is_default
                selection == IF currentWarehouseId = op.id /\ hasDefault
                             THEN CurrentWarehouseOf(rest, 0).id
                             ELSE currentWarehouseId
            IN /\ sWarehouses' = {w \in sWarehouses : w.id # op.id}
               /\ warehouses' = rest
               /\ currentWarehouseId' = selection
               /\ result' = Success
               /\ allTransactions' = SelectSeq(allTransactions,
                                                LAMBDA t : t.warehouse_id # op.id)
               /\ IF CurrentWarehouseOf(rest, selection).id # currentWarehouse.id
                  THEN ReloadScoped(ScopeOf(rest, warehouseEnabled, selection), okP, okT)
                  ELSE /\ okP /\ okT
                       /\ products' = {q \in products : q.warehouse_id # op.id}
                       /\ transactions' = SelectSeq(transactions, LAMBDA t : t.warehouse_id # op.id)
       ELSE /\ okP /\ okT
            /\ result' = Failure("delete_failed")
            /\ UNCHANGED <<sWarehouses, warehouses, currentWarehouseId, cacheVars>>
    /\ UNCHANGED <<sProducts, sTx, nextId, warehouseEnabled, loadPc, op>>

\* updateWarehouse as WarehouseManage.handleSave calls it (name, description, color: none
\* of them modelled): turned down with warehousing disabled, else one store call, the
\* update; a bare boolean comes back.
updateWarehouse(id, o) ==
    /\ last' = NoLast
    /\ UNCHANGED auxVars
    /\ pc = "idle" /\ LoadersIdle
    /\ IF ~warehouseEnabled THEN o = "error" ELSE StoreCall(o)
    /\ op' = [NoOp EXCEPT !.name = "updateWarehouse", !.id = id, !.att = warehouseEnabled]
    /\ pc' = "done"
    /\ result' = IF o = "ok" THEN Success ELSE Failure("none")
    /\ UNCHANGED <<storeVars, whVars, cacheVars, loadPc>>

\* ------------------------------------------------------------- engine calls
\* The products a page can hold that the cache does not: the product handed over in the
\* navigation state (StockAdjustment: products.find(...) || stateProduct).
StateProducts == {[id |-> i, warehouse_id |-> 0, quantity |-> 0] : i \in 1..MaxProducts}

\* updateProductQuantity called on its own: one store call, a bare boolean comes back.
updateProductQuantityCall(productId, q, o) ==
    /\ last' = NoLast
    /\ UNCHANGED auxVars
    /\ pc = "idle" /\ LoadersIdle
    /\ StoreCall(o)
    /\ op' = [NoOp EXCEPT !.name = "updateProductQuantity", !.id = productId,
                          !.pid = productId, !.fin = q, !.pre = StoredQuantity(productId),
                          !.att = TRUE]
    /\ updateProductQuantity(productId, q, o)
    /\ pc' = "done"
    /\ result' = IF o = "ok" THEN Success ELSE Failure("none")
    /\ UNCHANGED <<sWarehouses, sTx, nextId, whVars, transactions, allTransactions, loadPc>>

\* createTransaction called on its own: one store call, the row or null comes back.
createTransactionCall(productId, type, amount, o) ==
    /\ last' = NoLast
    /\ UNCHANGED auxVars
    /\ pc = "idle" /\ LoadersIdle
    /\ nextId.t <= MaxTx
    /\ StoreCall(o)
    /\ op' = [NoOp EXCEPT !.name = "createTransaction", !.id = IF o = "ok" THEN nextId.t ELSE 0,
                          !.pid = productId, !.type = type, !.amount = amount, !.wh = Scope,
                          !.att = TRUE]
    /\ createTransaction(productId, type, amount, Today, Scope, o)
    /\ pc' = "done"
    /\ result' = IF o = "ok" THEN Success ELSE Failure("none")
    /\ UNCHANGED <<sWarehouses, sProducts, whVars, products, loadPc>>

\* deleteTransaction of an id the cached list does not hold: turned down, nothing called.
deleteTransactionMissing(id) ==
    /\ last' = NoLast
    /\ UNCHANGED auxVars
    /\ pc = "idle" /\ LoadersIdle
    /\ \A i \in 1..Len(transactions) : transactions[i].id # id
    /\ op' = [NoOp EXCEPT !.name = "deleteTransaction", !.id = id]
    /\ pc' = "done"
    /\ result' = Failure("not_found")
    /\ UNCHANGED <<storeVars, whVars, cacheVars, loadPc>>

\* ------------------------------------------------------------- pages and busy flags
\* The handlers that start a mutation, with the page each lives on, the flag it sets
\* for the time of its call, and where it navigates when the call succeeded.
Handlers == {"AddProduct.handleSubmit", "StockAdjustment.handleConfirmAction",
             "StockAdjustment.handleDeleteProduct", "History.handleDelete",
             "WarehouseManage.handleSave", "WarehouseManage.handleDelete"}

HandlerPage(h) ==
    CASE h = "AddProduct.handleSubmit" -> "add"
      [] h \in {"StockAdjustment.handleConfirmAction", "StockAdjustment.handleDeleteProduct"}
           -> "adjust"
      [] h = "History.handleDelete" -> "history"
      [] OTHER -> "warehouses"

HandlerFlag(h) ==
    CASE h \in {"AddProduct.handleSubmit", "StockAdjustment.handleConfirmAction"}
           -> "isSubmitting"
      [] h = "WarehouseManage.handleSave" -> "isSaving"
      [] OTHER -> "isDeleting"

\* navigate(-1) after createProduct and the adjustment, navigate('/') after deleteProduct.
HandlerLeaves(h) ==
    CASE h \in {"AddProduct.handleSubmit", "StockAdjustment.handleConfirmAction"} -> "back"
      [] h = "StockAdjustment.handleDeleteProduct" -> "home"
      [] OTHER -> "stay"

\* The links of a page: the bottom navigation of the home and history pages, the product
\* rows of the home page, and the back and cancel controls of the other pages.
Links(name, from) ==
    IF name = "home" THEN {"add", "adjust", "history", "warehouses"}
    ELSE IF name = "history" THEN {"home", "add", "warehouses"}
    ELSE {IF from = "none" THEN "home" ELSE from}

\* A flag of the mounted page is set.  The confirmation dialogs of the adjustment,
\* history and warehouse pages cover the whole page while their flag is set; the sheet of
\* the add page covers nothing of its own: its cancel controls stay enabled.
Covered == page.name # "add" /\ (busy.isSubmitting \/ busy.isDeleting \/ busy.isSaving)

Mount(name, from) ==
    /\ page' = [name |-> name, id |-> page.id + 1,
                from |-> IF name \in {"home", "history"} THEN "none" ELSE from]
    /\ busy' = NoBusy

\* A link, a back button or a cancel control is used: the page unmounts, the target
\* mounts with fresh flags; handlers in flight go on.
Navigate(target) ==
    /\ page.id < MaxMounts
    /\ ~Covered
    /\ target \in Links(page.name, page.from)
    /\ Mount(target, page.name)
    /\ UNCHANGED <<storeVars, whVars, cacheVars, loadPc, pc, op, result, last, configured,
                   inflight, opening, viewVars>>

\* A handler starts: its button is enabled (its flag is false, and no dialog of the page
\* covers it), it sets its flag and issues its first store call.
StartHandler(h) ==
    /\ page.name = HandlerPage(h)
    /\ ~busy[HandlerFlag(h)] /\ ~Covered
    /\ busy' = [busy EXCEPT ![HandlerFlag(h)] = TRUE]
    /\ inflight' = inflight \cup {[handler |-> h, owner |-> page.id]}
    /\ UNCHANGED <<storeVars, whVars, cacheVars, loadPc, pc, op, result, last, configured,
                   page, opening, viewVars>>

\* A handler has its result: it releases its flag (a state update of an unmounted
\* component does nothing) and, after a success, navigates.
FinishHandler(m, ok) ==
    /\ m \in inflight
    /\ inflight' = inflight \ {m}
    /\ LET leaves == IF ok THEN HandlerLeaves(m.handler) ELSE "stay"
           target == IF leaves = "home" THEN "home" ELSE page.from
       IN IF leaves = "stay" \/ target = "none" \/ page.id >= MaxMounts
          THEN /\ busy' = IF m.owner = page.id
                          THEN [busy EXCEPT ![HandlerFlag(m.handler)] = FALSE] ELSE busy
               /\ UNCHANGED page
          ELSE Mount(target, "none")
    /\ UNCHANGED <<storeVars, whVars, cacheVars, loadPc, pc, op, result, last, configured,
                   opening, viewVars>>

\* ------------------------------------------------------------- opening stock
\* A variant of stockChange below that counts the transactions of every month.
RECURSIVE stockChangeAllTime(_, _, _)
stockChangeAllTime(productId, ts, monthStart) ==
    IF ts = <<>> THEN 0
    ELSE LET t == Head(ts)
         IN (IF t.product_id = productId
             THEN (IF t.type = "in" THEN t.amount ELSE -t.amount)
             ELSE 0) + stockChangeAllTime(productId, Tail(ts), monthStart)

\* A variant of stockChange below that leaves out the transactions created exactly at
\* the month start.
RECURSIVE stockChangeAfter(_, _, _)
stockChangeAfter(productId, ts, monthStart) ==
    IF ts = <<>> THEN 0
    ELSE LET t == Head(ts)
         IN (IF t.product_id = productId /\ t.created_at > monthStart
             THEN (IF t.type = "in" THEN t.amount ELSE -t.amount)
             ELSE 0) + stockChangeAfter(productId, Tail(ts), monthStart)

\* stockChange of openingStockData: the loop over transactions.
RECURSIVE stockChange(_, _, _)
stockChange(productId, ts, monthStart) ==
    IF ts = <<>> THEN 0
    ELSE LET t == Head(ts)
         IN (IF t.product_id = productId /\ t.created_at >= monthStart
             THEN (IF t.type = "in" THEN t.amount ELSE -t.amount)
             ELSE 0) + stockChange(productId, Tail(ts), monthStart)

\* openingStockData: one row per product.
openingStockData(ps, ts, monthStart) ==
    [i \in 1..Len(ps) |->
        [id |-> ps[i].id,
         currentQty |-> ps[i].quantity,
         openingQty |-> Max(0, ps[i].quantity - stockChange(ps[i].id, ts, monthStart)),
         change |-> stockChange(ps[i].id, ts, monthStart)]]

\* The transactions the page can be handed: of two products, before, at and after the
\* month starts.
HistoryTransactions ==
    [product_id : 1..2, type : {"in", "out"}, amount : 1..MaxAmount, created_at : 0..MaxTime]

HistoryLists ==
    UNION {[1..n -> HistoryTransactions] : n \in 0..MaxHist}

\* The History page opened on its opening stock tab, before its first render.
InitOpening ==
    /\ InitProvider
    /\ stats = NoStats
    /\ \E q \in 0..MaxQty, ts \in HistoryLists, m \in 0..MaxTime :
          opening = [products |-> <<[id |-> 1, quantity |-> q]>>, transactions |-> ts,
                     openingMonth |-> m, rows |-> <<>>]

\* The render: useMemo computes openingStockData.
renderOpeningStock ==
    /\ opening.rows = <<>> /\ opening.products # <<>>
    /\ opening' = [opening EXCEPT !.rows = openingStockData(opening.products,
                                                opening.transactions, opening.openingMonth)]
    /\ UNCHANGED <<storeVars, whVars, cacheVars, loadPc, pc, op, result, last, configured,
                   uiVars, viewVars>>

\* The month buttons: setOpeningMonth, and the rows are computed anew on the next render.
setOpeningMonth(m) ==
    /\ opening.products # <<>>
    /\ m # opening.openingMonth
    /\ opening' = [opening EXCEPT !.openingMonth = m, !.rows = <<>>]
    /\ UNCHANGED <<storeVars, whVars, cacheVars, loadPc, pc, op, result, last, configured,
                   uiVars, viewVars>>

\* ------------------------------------------------------------- specifications
\* Create Product and Adjust Stock only, every failed step compensated: the initial
\* transaction is written, and a compensating quantity write succeeds.
NextLedger ==
    \/ \E qty \in 0..MaxAmount, o \in Outcomes : createProduct(qty, o)
    \/ createProductTx("ok")
    \/ \E p \in products, operation \in {"add", "subtract"}, a \in 1..MaxAmount, o \in Outcomes :
          handleConfirmAction(p, operation, a, o)
    \/ \E o \in Outcomes : handleConfirmActionTx(o)
    \/ handleConfirmActionRollback("ok")
    \/ \E okP \in BOOLEAN, okT \in BOOLEAN : handleSync(okP, okT)
    \/ Return

SpecLedger == Init /\ [][NextLedger]_vars

\* The stock mutation engine with every store call free to fail.
NextStock ==
    \/ \E qty \in 0..MaxAmount, o \in Outcomes : createProduct(qty, o)
    \/ \E o \in Outcomes : createProductTx(o)
    \/ \E p \in products, operation \in {"add", "subtract"}, a \in 1..MaxAmount, o \in Outcomes :
          handleConfirmAction(p, operation, a, o)
    \/ \E o \in Outcomes : handleConfirmActionTx(o)
    \/ \E o \in Outcomes : handleConfirmActionRollback(o)
    \/ \E p \in products, o \in Outcomes : deleteProduct(p, o)
    \/ \E o \in Outcomes : deleteProductRow(o)
    \/ \E t \in Range(transactions), o \in OutcomesThrow : deleteTransaction(t, o)
    \/ \E o \in OutcomesThrow : deleteTransactionRow(o)
    \/ \E o \in OutcomesThrow : deleteTransactionRollback(o)
    \/ \E okP \in BOOLEAN, okT \in BOOLEAN : handleSync(okP, okT)
    \/ Return

SpecStock == Init /\ [][NextStock]_vars

\* The warehouse operations, with products created in the active warehouse, every
\* store call free to fail.
NextWarehouse ==
    \/ \E qty \in 0..MaxAmount, o \in Outcomes : createProduct(qty, o)
    \/ \E o \in Outcomes : createProductTx(o)
    \/ \E id \in Range(warehouses), okP \in BOOLEAN, okT \in BOOLEAN :
          setCurrentWarehouseId(id.id, okP, okT)
    \/ \E l \in Loaders, o \in OutcomesLoad, okP \in BOOLEAN, okT \in BOOLEAN :
          fetchWarehouses(l, o, okP, okT)
    \/ \E l \in Loaders, o \in Outcomes, okP \in BOOLEAN, okT \in BOOLEAN :
          fetchWarehousesProvision(l, o, okP, okT)
    \/ \E o \in Outcomes, okP \in BOOLEAN, okT \in BOOLEAN : createWarehouse(o, okP, okT)
    \/ \E id \in 1..MaxWarehouses, o \in Outcomes : deleteWarehouse(id, o)
    \/ \E o \in Outcomes : deleteWarehouseProducts(o)
    \/ \E o \in Outcomes, okP \in BOOLEAN, okT \in BOOLEAN : deleteWarehouseRow(o, okP, okT)
    \/ Return

SpecWarehouse == Init /\ [][NextWarehouse]_vars

\* The same operations when every store call and every read succeeds.
NextWarehouseOk ==
    \/ \E qty \in 0..MaxAmount : createProduct(qty, "ok")
    \/ createProductTx("ok")
    \/ \E id \in Range(warehouses) : setCurrentWarehouseId(id.id, TRUE, TRUE)
    \/ \E l \in Loaders : fetchWarehouses(l, "ok", TRUE, TRUE)
    \/ \E l \in Loaders : fetchWarehousesProvision(l, "ok", TRUE, TRUE)
    \/ createWarehouse("ok", TRUE, TRUE)
    \/ \E id \in 1..MaxWarehouses : deleteWarehouse(id, "ok")
    \/ deleteWarehouseProducts("ok")
    \/ deleteWarehouseRow("ok", TRUE, TRUE)
    \/ Return

SpecWarehouseOk == Init /\ [][NextWarehouseOk]_vars

\* The engine without store credentials, as any consumer of the provider can call it:
\* each operation with arguments of the caller's choosing.  Every store call fails
\* there, so no operation gets past its first call and the caches stay empty; the later
\* steps of the operations and the deletion of a cached transaction cannot occur.
NextUnconfigured ==
    \/ \E qty \in 0..MaxAmount, o \in Outcomes : createProduct(qty, o)
    \/ \E productId \in 1..MaxProducts, q \in 0..MaxQty, o \in Outcomes :
          updateProductQuantityCall(productId, q, o)
    \/ \E productId \in 1..MaxProducts, type \in {"in", "out"}, amount \in 1..MaxAmount,
          o \in Outcomes : createTransactionCall(productId, type, amount, o)
    \/ \E p \in products \cup StateProducts, o \in Outcomes : deleteProduct(p, o)
    \/ \E id \in 1..MaxTx : deleteTransactionMissing(id)
    \/ \E l \in Loaders, o \in Outcomes, okP \in BOOLEAN, okT \in BOOLEAN :
          fetchWarehouses(l, o, okP, okT)
    \/ \E o \in Outcomes, okP \in BOOLEAN, okT \in BOOLEAN : createWarehouse(o, okP, okT)
    \/ \E id \in 1..MaxWarehouses, o \in Outcomes : updateWarehouse(id, o)
    \/ \E id \in 1..MaxWarehouses, o \in Outcomes : deleteWarehouse(id, o)
    \/ \E okP \in BOOLEAN, okT \in BOOLEAN : handleSync(okP, okT)
    \/ Return

\* A build without store credentials.
InitUnconfigured == Init /\ ~configured

SpecUnconfigured == InitUnconfigured /\ [][NextUnconfigured]_vars

\* The pages, their busy flags and the handlers in flight.
NextBusy ==
    \/ \E target \in {"home", "add", "adjust", "history", "warehouses"} : Navigate(target)
    \/ \E h \in Handlers : StartHandler(h)
    \/ \E m \in inflight, ok \in BOOLEAN : FinishHandler(m, ok)

SpecBusy == Init /\ [][NextBusy]_vars

\* The opening stock tab over every list of transactions it can be handed.
NextOpening ==
    \/ renderOpeningStock
    \/ \E m \in 0..MaxTime : setOpeningMonth(m)

SpecOpening == InitOpening /\ [][NextOpening]_vars

\* ------------------------------------------------------------- properties
RECURSIVE SumAmounts(_)
SumAmounts(S) ==
    IF S = {} THEN 0
    ELSE LET x == CHOOSE y \in S : TRUE IN x.amount + SumAmounts(S \ {x})

\* Sum of the stored 'in' amounts of a product minus the sum of its stored 'out' amounts.
LedgerNet(productId) ==
    SumAmounts({t \in TransactionsOf(productId) : t.type = "in"})
      - SumAmounts({t \in TransactionsOf(productId) : t.type = "out"})

\* No operation is between two of its store calls.
AtRest == pc \in {"idle", "done"}

ClampedWithdrawal ==
    (pc = "done" /\ op.name = "adjust" /\ result.ok /\ op.type = "out" /\ op.amount > op.cur)
      => /\ \E t \in sTx : /\ t.id = nextId.t - 1 /\ t.product_id = op.id
                            /\ t.type = "out" /\ t.amount = op.cur
         /\ Cardinality(TransactionsOf(op.id)) = op.ntx + 1
         /\ StoredQuantity(op.id) = 0

\* C2's case: 1 in stock, 2 asked for.
ClampedWithdrawalWitness ==
    /\ pc = "done" /\ op.name = "adjust" /\ result.ok
    /\ op.type = "out" /\ op.amount = 2 /\ op.cur = 1 /\ op.pre = 1

\* An Adjust Stock has returned after its transaction write failed.
AdjustTxWriteFailed == pc = "done" /\ op.name = "adjust" /\ result.error = "rolled_back"

DeleteTransactionSucceeded == pc = "done" /\ op.name = "deleteTransaction" /\ result.ok
DeleteTransactionFailed == pc = "done" /\ op.name = "deleteTransaction" /\ ~result.ok

\* C4: a successful Delete Transaction of a transaction of amount A whose product is
\* stored with quantity q has removed the row and left the stored quantity at
\* max(0, q - A) for an 'in' and q + A for an 'out'.
DeleteTransactionReverses ==
    (DeleteTransactionSucceeded /\ op.had /\ op.pre >= 0)
      => /\ ~\E t \in sTx : t.id = op.id
         /\ StoredQuantity(op.pid) = IF op.type = "in" THEN Max(0, op.pre - op.amount)
                                      ELSE op.pre + op.amount

\* C5: when a Delete Transaction returns failure, the row is still stored and the
\* stored quantity of its product is what it was when the operation started.
DeleteTransactionFailureIsNoOp ==
    (DeleteTransactionFailed /\ op.had)
      => /\ \E t \in sTx : t.id = op.id
         /\ StoredQuantity(op.pid) = op.pre

\* C6: the product row of a Delete Product is gone only once the operation has returned
\* success, and from the moment the product delete can be issued no stored transaction
\* references the product (the transaction delete has succeeded by then).
DeleteProductCascade ==
    op.name = "deleteProduct"
      => /\ (pc = "done" /\ result.ok)
               => (StoredQuantity(op.id) = -1 /\ TransactionsOf(op.id) = {})
         /\ pc = "dp_prod" => (TransactionsOf(op.id) = {} /\ StoredQuantity(op.id) = op.pre)
         /\ (op.pre >= 0 /\ StoredQuantity(op.id) = -1)
               => (pc = "done" /\ result.ok /\ TransactionsOf(op.id) = {})

\* C6's case: a product with two stored transactions has been deleted.
DeleteProductCascadeWitness ==
    pc = "done" /\ op.name = "deleteProduct" /\ result.ok /\ op.ntx = 2 /\ op.pre >= 0

\* C9: every stored and every cached quantity is an integer >= 0, in every state.
QuantityNonNegative ==
    /\ \A r \in sProducts : r.quantity \in Nat
    /\ \A q \in products : q.quantity \in Nat

\* C9's case: the floor has acted, in the deletion of an 'in' transaction larger than
\* the quantity left.
QuantityNonNegativeWitness ==
    /\ DeleteTransactionSucceeded /\ op.type = "in" /\ op.found
    /\ op.amount > op.cur /\ op.pre = op.cur /\ StoredQuantity(op.pid) = 0

\* Every stored transaction has amount > 0 and type 'in' or 'out'.
WellFormed == \A t \in sTx : t.amount > 0 /\ t.type \in {"in", "out"}

\* A step leaves every transaction that stays stored as it was.
Immutable == \A t \in sTx : (\E u \in sTx' : u.id = t.id) => t \in sTx'

TransactionsImmutable == [][Immutable]_vars

\* The stored warehouse id is flagged is_default / is the only stored warehouse.
StoredDefault(id) == \E w \in sWarehouses : w.id = id /\ w.is_default
StoredOnly(id) == \E w \in sWarehouses : w.id = id /\ sWarehouses = {w}

\* C7: a Delete Warehouse called on a stored warehouse that is flagged is_default, or
\* that is the only stored warehouse, returns at once with an error result, and the
\* step writes nothing to the store and changes none of the client's state.
DeleteWarehouseProtected ==
    [][(pc = "idle" /\ op'.name = "deleteWarehouse"
          /\ (StoredDefault(op'.id) \/ StoredOnly(op'.id)))
         => (pc' = "done" /\ ~result'.ok /\ UNCHANGED <<storeVars, whVars, cacheVars>>)]_vars

\* C7's case: with two warehouses stored and a product in the store, the delete of the
\* default one has been rejected.
DeleteWarehouseProtectedWitness ==
    /\ pc = "done" /\ op.name = "deleteWarehouse" /\ result.error = "is_default"
    /\ StoredDefault(op.id) /\ Cardinality(sWarehouses) = 2 /\ sProducts # {}

\* C8 (under SpecWarehouseOk: every store call succeeds): with warehousing enabled and
\* no load in flight, the store holds at least one warehouse and exactly one flagged
\* is_default.
OneDefaultWarehouse ==
    (warehouseEnabled /\ LoadersIdle)
      => /\ Cardinality(sWarehouses) >= 1
         /\ Cardinality({w \in sWarehouses : w.is_default}) = 1

CreateProductSucceeded == pc = "done" /\ op.name = "createProduct" /\ result.ok

\* The product Create Product wrote is stored with its initial quantity, in the scope
\* the call captured.
CreatedProductStored ==
    \E p \in sProducts : p.id = op.pid /\ p.quantity = op.amount /\ p.warehouse_id = op.wh

\* The product has exactly one stored transaction: 'in', of the initial quantity, in the
\* warehouse of the product.
OneInitialTransaction ==
    \E t \in sTx :
        /\ TransactionsOf(op.pid) = {t}
        /\ t.type = "in" /\ t.amount = op.amount /\ t.warehouse_id = op.wh

\* C12 as stated: a successful Create Product has written the product with its initial
\* quantity and, when that quantity is positive, exactly one 'in' transaction of that
\* amount in the product's warehouse; with initial quantity 0 it has written no transaction.
CreateProductSeedsAlways ==
    CreateProductSucceeded =>
        /\ CreatedProductStored
        /\ op.amount > 0 => OneInitialTransaction
        /\ op.amount = 0 => TransactionsOf(op.pid) = {}

\* C12, amended: a successful Create Product has written the product with its initial
\* quantity; with a positive initial quantity it has issued the write of the initial
\* transaction, and when that write succeeded the product has exactly one transaction,
\* 'in', of that amount, in the product's warehouse; when that write failed, or the
\* initial quantity is 0, the product has no transaction.
CreateProductSeeds ==
    CreateProductSucceeded =>
        /\ CreatedProductStored
        /\ op.amount > 0 => op.seed # "none"
        /\ (op.amount > 0 /\ op.seed = "ok") => OneInitialTransaction
        /\ (op.amount = 0 \/ op.seed # "ok") => TransactionsOf(op.pid) = {}

CreateProductSeedsWitness ==
    /\ CreateProductSucceeded /\ op.amount > 0 /\ op.seed = "ok"
    /\ op.wh # 0 /\ OneInitialTransaction

\* C13: when the write of the initial transaction failed after the product was written,
\* the product is stored with its nonzero quantity, the creation is reported successful,
\* and the result differs from the result of a full success (it carries a warning).
CreateProductPartialSuccessWarned ==
    (CreateProductSucceeded /\ op.seed = "error") =>
        /\ CreatedProductStored /\ op.amount > 0
        /\ result.ok
        /\ result # Success

\* ------------------------------------------------------------- compensation reports
\* C14: when the compensating quantity write of Adjust Stock or Delete Transaction
\* failed, the operation reports a failure other than 'rolled back'; and an operation
\* that reports 'rolled back' leaves the product's stored quantity at the value it had
\* when the operation started.
RolledBackIsTruthful ==
    (pc = "done" /\ op.name \in {"adjust", "deleteTransaction"}) =>
        /\ op.comp \in {"error", "throw"} => (~result.ok /\ result.error # "rolled_back")
        /\ result.error = "rolled_back" => StoredQuantity(op.pid) = op.pre

\* ------------------------------------------------------------- store not configured
\* C15: without store credentials every engine operation ends with a failure result that
\* carries an error description, and it has gone on to no store call.
UnconfiguredShortCircuits ==
    (~configured /\ pc = "done") =>
        /\ ~result.ok /\ result.error # "none"
        /\ ~op.att

\* ------------------------------------------------------------- busy flags
\* C16: at most one mutation handler is in flight at any time.
OneMutationInFlight == Cardinality(inflight) <= 1

\* ------------------------------------------------------------- warehouse scope
PersistedExists == \E w \in Range(warehouses) : w.id = currentWarehouseId
DefaultListed == \E w \in Range(warehouses) : w.is_default

\* C17: with a non-empty warehouse list the resolved warehouse is a member of the list:
\* the one with the persisted id when the list has it, otherwise one flagged is_default
\* when the list has one, otherwise the oldest of the list (ids are handed out in
\* creation order).
ResolutionOrder ==
    Len(warehouses) > 0 =>
        /\ currentWarehouse \in Range(warehouses)
        /\ PersistedExists => currentWarehouse.id = currentWarehouseId
        /\ (~PersistedExists /\ DefaultListed) => currentWarehouse.is_default
        /\ (~PersistedExists /\ ~DefaultListed) =>
               \A w \in Range(warehouses) : currentWarehouse.id <= w.id

\* The persisted selection names a warehouse the list no longer has.
ResolutionOrderWitness ==
    /\ Len(warehouses) > 0
    /\ currentWarehouseId # 0 /\ ~PersistedExists
    /\ currentWarehouse \in Range(warehouses)

\* The step that ends a successful Delete Warehouse.
DeleteWarehouseDone == pc = "dw_wh" /\ pc' = "done" /\ result'.ok

\* C18: a successful Delete Warehouse of the warehouse that was the active scope leaves
\* the stored default warehouse as the active scope, resolved and persisted; a
\* successful Delete Warehouse of another warehouse leaves the resolved warehouse and the
\* persisted selection as they were.
DeleteWarehouseMovesScope ==
    [][DeleteWarehouseDone =>
          IF currentWarehouse.id = op.id
          THEN /\ currentWarehouse'.is_default
               /\ currentWarehouse' \in sWarehouses'
               /\ currentWarehouseId' = currentWarehouse'.id
          ELSE /\ currentWarehouse' = currentWarehouse
               /\ currentWarehouseId' = currentWarehouseId]_vars

\* ------------------------------------------------------------- schema absence
\* A load ends on the missing relation; a load ends on another error.
AbsentLoad(l) == loadPc[l] # "absent" /\ loadPc'[l] = "absent"
FailedLoad(l) == loadPc[l] # "failed" /\ loadPc'[l] = "failed"

\* C19: a load that finds the warehouses relation missing disables warehousing and
\* reports nothing; while warehousing is disabled reads filter on no warehouse and a
\* product just created carries no warehouse id; and a load that fails for another
\* reason leaves the flag as it was.
SchemaAbsenceOnly ==
    /\ [](~warehouseEnabled =>
            /\ Scope = 0
            /\ CreateProductSucceeded => \E p \in sProducts : p.id = op.pid /\ p.warehouse_id = 0)
    /\ [][\A l \in Loaders :
            /\ AbsentLoad(l) => (~warehouseEnabled' /\ result' = result)
            /\ FailedLoad(l) => warehouseEnabled' = warehouseEnabled]_vars

\* ------------------------------------------------------------- opening stock
RECURSIVE SumAt(_, _)
\* The sum of the amounts of the transactions at the positions I of a list.
SumAt(ts, I) ==
    IF I = {} THEN 0
    ELSE LET k == CHOOSE j \in I : TRUE IN ts[k].amount + SumAt(ts, I \ {k})

\* The positions of the product's transactions created at or after the month start.
ThisMonth(productId) ==
    {k \in 1..Len(opening.transactions) :
        /\ opening.transactions[k].product_id = productId
        /\ opening.transactions[k].created_at >= opening.openingMonth}

NetChange(productId) ==
    SumAt(opening.transactions,
          {k \in ThisMonth(productId) : opening.transactions[k].type = "in"})
    - SumAt(opening.transactions,
            {k \in ThisMonth(productId) : opening.transactions[k].type = "out"})

\* C20: every row of the opening stock tab has change = the product's 'in' amounts minus
\* its 'out' amounts over its transactions created at or after the month start, and
\* openingQty = max(0, currentQty - change); with no such transaction openingQty is the
\* current quantity.
OpeningStockReconstruction ==
    \A i \in 1..Len(opening.rows) :
        LET row == opening.rows[i]
            product == opening.products[i]
        IN /\ row.id = product.id /\ row.currentQty = product.quantity
           /\ row.change = NetChange(product.id)
           /\ row.openingQty = Max(0, product.quantity - NetChange(product.id))
           /\ ThisMonth(product.id) = {} => row.openingQty = product.quantity

\* A row computed from a list that holds a transaction of the product before the month
\* start, one after it and one of another product would change the result if counted.
OpeningStockReconstructionWitness ==
    /\ Len(opening.rows) = 1
    /\ opening.rows[1].change # 0
    /\ \E k \in 1..Len(opening.transactions) :
          /\ opening.transactions[k].product_id = 1
          /\ opening.transactions[k].created_at < opening.openingMonth
    /\ opening.rows[1].openingQty # opening.rows[1].currentQty

\* ------------------------------------------------------------- ProductPerformance: trend
Abs(n) == IF n < 0 THEN -n ELSE n

\* Math.round of the quotient n / d (d > 0): the nearest integer, a half rounded up.
MathRound(n, d) == (2 * n + d) \div (2 * d)

\* The direction decided on the rounded percentage instead of on the change itself.
trendRounded(lastMonthOut, thisMonthOut) ==
    IF lastMonthOut > 0
    THEN LET pct == MathRound(100 * (thisMonthOut - lastMonthOut), lastMonthOut)
         IN IF pct > 5 THEN "up" ELSE IF pct < -5 THEN "down" ELSE "stable"
    ELSE IF thisMonthOut > 0 THEN "up" ELSE "stable"

\* trend: change = (thisMonthOut - lastMonthOut) / lastMonthOut * 100 is compared with 5
\* and -5 as it is, a fraction included; here both sides are multiplied by lastMonthOut.
trend(lastMonthOut, thisMonthOut) ==
    IF lastMonthOut > 0
    THEN IF 100 * (thisMonthOut - lastMonthOut) > 5 * lastMonthOut THEN "up"
         ELSE IF 100 * (thisMonthOut - lastMonthOut) < -5 * lastMonthOut THEN "down"
         ELSE "stable"
    ELSE IF thisMonthOut > 0 THEN "up" ELSE "stable"

\* trendValue: Math.abs(Math.round(change)), 100 for a first month of consumption.
trendValue(lastMonthOut, thisMonthOut) ==
    IF lastMonthOut > 0
    THEN Abs(MathRound(100 * (thisMonthOut - lastMonthOut), lastMonthOut))
    ELSE IF thisMonthOut > 0 THEN 100 ELSE 0

\* The page opened for one product whose out transactions of this month and of the
\* month before add up to thisMonthOut and lastMonthOut.
InitTrend ==
    /\ InitProvider
    /\ opening = NoOpening
    /\ \E l \in 0..MaxOut, t \in 0..MaxOut :
          stats = [NoStats EXCEPT !.mounted = TRUE, !.lastMonthOut = l, !.thisMonthOut = t]

\* The render: useMemo computes the product's row of productStats.
renderTrend ==
    /\ stats.mounted /\ stats.row = NoRow
    /\ stats' = [stats EXCEPT !.row = [NoRow EXCEPT
                      !.trend = trend(stats.lastMonthOut, stats.thisMonthOut),
                      !.trendValue = trendValue(stats.lastMonthOut, stats.thisMonthOut)]]
    /\ UNCHANGED <<storeVars, whVars, cacheVars, loadPc, pc, op, result, last, configured,
                   uiVars, opening, customDate, reads>>

NextTrend == renderTrend

SpecTrend == InitTrend /\ [][NextTrend]_vars

\* The percentage of the claim: the integer nearest to 100 * (t - l) / l, a half up.
Pct(l, t) ==
    CHOOSE v \in -100..(100 * (MaxOut + 1)) :
        /\ 2 * l * v - l <= 200 * (t - l)
        /\ 200 * (t - l) < 2 * l * v + l

TrendRendered == stats.mounted /\ stats.row # NoRow

\* C21 as stated: with lastMonthOut > 0 the direction is read off the rounded
\* percentage pct (up if pct > 5, down if pct < -5, else stable) and the magnitude is
\* |pct|; with lastMonthOut = 0 it is up with 100 or stable with 0.
TrendOnRoundedPct ==
    TrendRendered =>
        LET l == stats.lastMonthOut
            t == stats.thisMonthOut
        IN IF l = 0
           THEN stats.row = [NoRow EXCEPT !.trend = IF t > 0 THEN "up" ELSE "stable",
                                          !.trendValue = IF t > 0 THEN 100 ELSE 0]
           ELSE /\ stats.row.trend = (IF Pct(l, t) > 5 THEN "up"
                                      ELSE IF Pct(l, t) < -5 THEN "down" ELSE "stable")
                /\ stats.row.trendValue = Abs(Pct(l, t))

\* C21: for every pair (lastMonthOut, thisMonthOut) the trend is: with lastMonthOut = 0,
\* up with 100 if thisMonthOut > 0 and stable with 0 otherwise; with lastMonthOut > 0,
\* up exactly if thisMonthOut exceeds lastMonthOut by more than 5 percent of it, down
\* exactly if it falls short by more than 5 percent, stable otherwise, and the magnitude
\* is |pct| for the rounded percentage pct (20 -> 21 stable, 20 -> 22 up with 10,
\* 19 -> 20 up with 5).
TrendOnExactChange ==
    TrendRendered =>
        LET l == stats.lastMonthOut
            t == stats.thisMonthOut
        IN IF l = 0
           THEN stats.row = [NoRow EXCEPT !.trend = IF t > 0 THEN "up" ELSE "stable",
                                          !.trendValue = IF t > 0 THEN 100 ELSE 0]
           ELSE /\ (stats.row.trend = "up") = (100 * t > 105 * l)
                /\ (stats.row.trend = "down") = (100 * t < 95 * l)
                /\ stats.row.trend \in {"up", "down", "stable"}
                /\ stats.row.trendValue = Abs(Pct(l, t))

\* A rise of 5.26 percent: shown as up with 5.
TrendOnExactChangeWitness ==
    /\ TrendRendered
    /\ stats.lastMonthOut = 19 /\ stats.thisMonthOut = 20
    /\ stats.row.trend = "up" /\ stats.row.trendValue = 5

\* ------------------------------------------------------------- dated adjustments
\* The date field of StockAdjustment: setCustomDate, no later than now (its max).
setCustomDate(d) ==
    /\ pc = "idle"
    /\ d # customDate
    /\ customDate' = d
    /\ UNCHANGED <<storeVars, whVars, cacheVars, loadPc, pc, op, result, last, configured,
                   uiVars, opening, stats, reads>>

\* fetchAllTransactions: every row of the tenant, oldest first; on an error the list
\* stays as it is.
fetchAllTransactions(o) ==
    /\ pc = "idle" /\ LoadersIdle
    /\ StoreCall(o)
    /\ allTransactions' = IF o = "ok" THEN OrderByCreatedAtAsc(sTx) ELSE allTransactions
    /\ UNCHANGED <<storeVars, whVars, products, transactions, loadPc, pc, op, result, last,
                   auxVars>>

\* A tenant with credentials and no warehouse tables who created one product earlier
\* in the period, after the loads of the login.
InitDated ==
    /\ \E q \in 1..MaxSeed :
          LET product == [id |-> 1, warehouse_id |-> 0, quantity |-> q]
              initial == [id |-> 0, product_id |-> 1, warehouse_id |-> 0, type |-> "in",
                          amount |-> q, created_at |-> Today]
          IN /\ sProducts = {product} /\ products = {product}
             /\ sTx = {initial}
             /\ transactions = <<initial>> /\ allTransactions = <<initial>>
    /\ sWarehouses = {}
    /\ nextId = [w |-> 1, p |-> 2, t |-> 1]
    /\ warehouses = <<>>
    /\ warehouseEnabled = FALSE
    /\ currentWarehouseId = 0
    /\ customDate = Today
    /\ reads = {}
    /\ loadPc = [l \in Loaders |-> "none"]
    /\ pc = "idle"
    /\ op = NoOp
    /\ result = NoResult
    /\ last = NoLast
    /\ configured = TRUE
    /\ page = [name |-> "home", id |-> 1, from |-> "none"]
    /\ busy = NoBusy
    /\ inflight = {}
    /\ opening = NoOpening
    /\ stats = NoStats

\* Create Product, Adjust Stock dated at will, and the loads; every store call succeeds.
NextDated ==
    \/ \E qty \in 0..MaxAmount : createProduct(qty, "ok")
    \/ createProductTx("ok")
    \/ \E d \in 0..Today : setCustomDate(d)
    \/ \E p \in products, operation \in {"add", "subtract"}, a \in 1..MaxAmount :
          handleConfirmAction(p, operation, a, "ok")
    \/ handleConfirmActionTx("ok")
    \/ Return
    \/ handleSync(TRUE, TRUE)
    \/ fetchAllTransactions("ok")

SpecDated == InitDated /\ [][NextDated]_vars

\* ------------------------------------------------------------- ProductPerformance: turnover
\* outTransactions: the product's out rows, in the order of the cached list.
outTransactions(product, txs) ==
    SelectSeq(txs, LAMBDA t : t.product_id = product.id /\ t.type = "out")

RECURSIVE SumSeq(_)
\* reduce((sum, t) => sum + t.amount, 0)
SumSeq(txs) == IF txs = <<>> THEN 0 ELSE Head(txs).amount + SumSeq(Tail(txs))

\* totalConsumed: the product's out amounts of all time.
totalConsumed(product, txs) == SumSeq(outTransactions(product, txs))

\* actualMonths: the age, in periods of 30 days, of the LAST row of outTransactions,
\* at least 1; 1 without out rows.
actualMonths(product, txs) ==
    LET outs == outTransactions(product, txs)
    IN IF Len(outs) > 0 THEN Max(1, Today - outs[Len(outs)].created_at) ELSE 1

\* turnoverRate.  avgMonthlyConsumption = totalConsumed / actualMonths is a fraction;
\* `avgMonthlyConsumption || 1` is 1 only when it is 0; the comparisons of
\* monthsOfStock = quantity / (avgMonthlyConsumption || 1) with 2 and 6 and of
\* avgMonthlyConsumption with 10 are multiplied out.
turnoverRate(product, txs) ==
    LET total == totalConsumed(product, txs)
        months == actualMonths(product, txs)
        quantity == product.quantity
    IN IF quantity > 0
       THEN IF total = 0
            THEN IF quantity < 2 THEN "High" ELSE IF quantity < 6 THEN "Med" ELSE "Low"
            ELSE IF quantity * months < 2 * total THEN "High"
                 ELSE IF quantity * months < 6 * total THEN "Med" ELSE "Low"
       ELSE IF total > 10 * months THEN "High" ELSE "Low"

\* The months of the claim: the age of the earliest out row of the product, at least 1.
MonthsSinceEarliest(product) ==
    LET outs == Range(outTransactions(product, transactions))
    IN IF outs = {} THEN 1
       ELSE Max(1, Today - (CHOOSE d \in {t.created_at : t \in outs} :
                                      \A t \in outs : d <= t.created_at))

\* The classification of the claim: quantity / max(avgMonthlyConsumption, 1) against 2
\* and 6, avgMonthlyConsumption against 10, with the months above.
TurnoverOnEarliest(product) ==
    LET total == totalConsumed(product, transactions)
        months == MonthsSinceEarliest(product)
        quantity == product.quantity
    IN IF quantity > 0
       THEN IF total <= months
            THEN IF quantity < 2 THEN "High" ELSE IF quantity < 6 THEN "Med" ELSE "Low"
            ELSE IF quantity * months < 2 * total THEN "High"
                 ELSE IF quantity * months < 6 * total THEN "Med" ELSE "Low"
       ELSE IF total > 10 * months THEN "High" ELSE "Low"

\* C22: on the list reached after any sequence of adjustments, backdated ones included,
\* actualMonths is the age of the product's earliest out transaction (at least 1, and 1
\* without one) and the product is classified by quantity / max(avgMonthlyConsumption, 1)
\* (High below 2, Med below 6, else Low), or at quantity 0 by avgMonthlyConsumption > 10.
TurnoverAsStated ==
    AtRest => \A p \in products :
        /\ actualMonths(p, transactions) = MonthsSinceEarliest(p)
        /\ turnoverRate(p, transactions) = TurnoverOnEarliest(p)

\* The same confined to products whose average over the months of the claim is 0 or at
\* least 1, where `|| 1` and max(.., 1) agree: what is left is the choice of the row
\* taken for the earliest.
TurnoverDatedByEarliest ==
    AtRest => \A p \in products :
        (\/ totalConsumed(p, transactions) = 0
         \/ totalConsumed(p, transactions) >= MonthsSinceEarliest(p))
            => turnoverRate(p, transactions) = TurnoverOnEarliest(p)

\* ------------------------------------------------------------- Adjust Stock: order of writes
\* An Adjust Stock has returned after its quantity write failed.
AdjustQuantityWriteFailed ==
    pc = "done" /\ op.name = "adjust" /\ result.error = "update_failed"

\* C23: within one Adjust Stock the quantity write comes first and the transaction
\* write is issued only once the quantity write has succeeded: where the transaction
\* write is about to be issued the store holds the new quantity and no transaction has
\* been added yet, and a transaction is added from that position only.  If the quantity
\* write fails the operation returns at once with failure, the store as it was: no
\* transaction added, no compensating write issued, the stored quantity unchanged.
AdjustQuantityWriteFirst ==
    /\ [](pc = "adj_tx"
            => /\ op.name = "adjust" /\ result.ok
               /\ op.pre # -1 => StoredQuantity(op.id) = op.fin
               /\ Cardinality(TransactionsOf(op.id)) = op.ntx)
    /\ [](AdjustQuantityWriteFailed
            => /\ ~result.ok
               /\ StoredQuantity(op.id) = op.pre
               /\ Cardinality(TransactionsOf(op.id)) = op.ntx
               /\ op.comp = "none")
    /\ [][(pc = "idle" /\ op'.name = "adjust" /\ pc' # "adj_tx")
            => (pc' = "done" /\ AdjustQuantityWriteFailed' /\ UNCHANGED storeVars)]_vars
    /\ [][(op.name = "adjust" /\ sTx' # sTx) => pc = "adj_tx"]_vars
    /\ [][AdjustQuantityWriteFailed => UNCHANGED storeVars]_vars

\* C23's case: the quantity write of a withdrawal from a stocked product has failed.
AdjustQuantityWriteFirstWitness ==
    /\ AdjustQuantityWriteFailed
    /\ op.type = "out" /\ op.pre > 0 /\ op.ntx > 0

\* ------------------------------------------------------------- ledger under deletion
\* The build has its store credentials.
InitConfigured == Init /\ configured

\* Create Product, Adjust Stock and Delete Transaction, every store call succeeding.
NextSuccessful ==
    \/ \E qty \in 0..MaxAmount : createProduct(qty, "ok")
    \/ createProductTx("ok")
    \/ \E p \in products, operation \in {"add", "subtract"}, a \in 1..MaxAmount :
          handleConfirmAction(p, operation, a, "ok")
    \/ handleConfirmActionTx("ok")
    \/ \E t \in Range(transactions) : deleteTransaction(t, "ok")
    \/ deleteTransactionRow("ok")
    \/ Return

SpecSuccessful == InitConfigured /\ [][NextSuccessful]_vars

\* C24: after any sequence of successful Create Product, Adjust Stock and Delete
\* Transaction operations each stored product's quantity is the sum of its remaining
\* 'in' amounts minus the sum of its remaining 'out' amounts.
LedgerInvariantUnderDelete ==
    (pc \in {"idle", "done"} /\ result.ok) => \A r \in sProducts : r.quantity = LedgerNet(r.id)

\* ------------------------------------------------------------- Delete Product: second write
\* A Delete Product has returned failure after it deleted the product's transactions.
DeleteProductHalfDone ==
    /\ pc = "done" /\ op.name = "deleteProduct" /\ ~result.ok
    /\ op.ntx > 0 /\ TransactionsOf(op.id) = {}

\* C25: when a Delete Product returns failure after its transaction delete succeeded
\* and its product delete failed, it is not the case that the product is still stored
\* with a quantity other than 0 and without any stored transaction.
DeleteProductFailureConsistent ==
    DeleteProductHalfDone
      => ~(StoredQuantity(op.id) > 0 /\ TransactionsOf(op.id) = {})

\* ------------------------------------------------------------- provisioning
\* The loads of the warehouse list, by the provider on login and by the warehouse page on
\* mount, as often as they come: the select may fail, the reads of products and
\* transactions that follow may fail, the insert of the default warehouse succeeds.
\* Products are created in between, so that the loads have rows to read.
NextProvision ==
    \/ \E l \in Loaders, o \in OutcomesLoad, okP \in BOOLEAN, okT \in BOOLEAN :
          fetchWarehouses(l, o, okP, okT)
    \/ \E l \in Loaders, okP \in BOOLEAN, okT \in BOOLEAN :
          fetchWarehousesProvision(l, "ok", okP, okT)
    \/ \E qty \in 0..MaxAmount : createProduct(qty, "ok")
    \/ createProductTx("ok")
    \/ Return

SpecProvision == InitConfigured /\ [][NextProvision]_vars

\* A default warehouse is being stored.
ProvisioningInsert == \E w \in sWarehouses' \ sWarehouses : w.is_default

\* C26: for a tenant that started with no warehouse, whatever loads of the warehouse
\* list have run, two with interleaved store calls included, once a load has gone
\* through and none is in flight the store holds exactly one warehouse, flagged
\* is_default; and the provisioning insert is issued against an empty store only.
ProvisioningIdempotent ==
    /\ []((LoadersIdle /\ \E l \in Loaders : loadPc[l] = "loaded")
            => (Cardinality(sWarehouses) = 1 /\ \A w \in sWarehouses : w.is_default))
    /\ [][ProvisioningInsert => sWarehouses = {}]_vars

\* ------------------------------------------------------------- opening stock of a dated ledger
\* The product's row of the opening stock tab for a month start, computed from the
\* caches as they are.
OpeningQty(product, monthStart) ==
    openingStockData(<<product>>, transactions, monthStart)[1].openingQty

\* The cached transactions of a product of one type, those created before a month start.
CachedOf(product, type) ==
    {t \in Range(transactions) : t.product_id = product.id /\ t.type = type}
CachedBefore(product, type, monthStart) ==
    {t \in CachedOf(product, type) : t.created_at < monthStart}

\* The ledger invariant holds for the product as the page sees it.
LedgerHolds(product) ==
    product.quantity = SumAmounts(CachedOf(product, "in")) - SumAmounts(CachedOf(product, "out"))

\* The stock level as of the month start: 'in' minus 'out' over the transactions before it.
StockAsOf(product, monthStart) ==
    SumAmounts(CachedBefore(product, "in", monthStart))
      - SumAmounts(CachedBefore(product, "out", monthStart))

\* C27 as stated: whenever the ledger invariant holds for a product, its openingQty for
\* a month is the sum of its 'in' amounts minus the sum of its 'out' amounts over its
\* transactions created before the month start, backdated adjustments included.
OpeningQtyIsStockAsOf ==
    \A product \in products, monthStart \in 0..MaxTime :
        LedgerHolds(product) => OpeningQty(product, monthStart) = StockAsOf(product, monthStart)

\* C27: whenever the ledger invariant holds for a product, its openingQty for a month
\* is the sum of its 'in' amounts minus the sum of its 'out' amounts over its
\* transactions created before the month start, or 0 where that sum is negative;
\* this holds on every ledger reached by Create Product and Adjust Stock, adjustments
\* backdated to before the month start included.
OpeningQtyIsFlooredStockAsOf ==
    \A product \in products, monthStart \in 0..MaxTime :
        LedgerHolds(product)
          => OpeningQty(product, monthStart) = Max(0, StockAsOf(product, monthStart))

\* C27's case: a withdrawal backdated to before the month start, and to before the stock
\* it took from was put in, has been written: the level as of the month start is
\* negative and the row shows 0.
OpeningQtyIsFlooredStockAsOfWitness ==
    /\ pc = "done" /\ op.name = "adjust" /\ result.ok /\ op.type = "out" /\ customDate = 0
    /\ \E product \in products :
          /\ product.id = op.id /\ LedgerHolds(product)
          /\ StockAsOf(product, 1) < 0
          /\ OpeningQty(product, 1) = 0
          /\ OpeningQty(product, 0) = 0 /\ OpeningQty(product, MaxTime) = StockAsOf(product, MaxTime)

\* ------------------------------------------------------------- order of the cached lists
\* The list runs from the newest created_at to the oldest / from the oldest to the newest.
NewestFirst(list) ==
    \A i \in 1..Len(list), j \in 1..Len(list) :
        i < j => list[i].created_at >= list[j].created_at
OldestFirst(list) ==
    \A i \in 1..Len(list), j \in 1..Len(list) :
        i < j => list[i].created_at <= list[j].created_at

\* C28: after any sequence of loads, Create Product and Adjust Stock operations,
\* backdated adjustments included, the list exposed for display (transactions) is
\* ordered by created_at descending and the full-history list (allTransactions) by
\* created_at ascending.
ListsOrderedByCreatedAt ==
    AtRest => (NewestFirst(transactions) /\ OldestFirst(allTransactions))

\* Each half of C28 on its own.
DisplayListNewestFirst == AtRest => NewestFirst(transactions)
FullListOldestFirst == AtRest => OldestFirst(allTransactions)

\* ------------------------------------------------------------- caches and store
\* The mutations alone, every store call free to fail, from caches that agree with the
\* store: no load runs, so nothing but a mutation touches the caches.
NextMutations ==
    \/ \E qty \in 0..MaxAmount, o \in Outcomes : createProduct(qty, o)
    \/ \E o \in Outcomes : createProductTx(o)
    \/ \E p \in products, operation \in {"add", "subtract"}, a \in 1..MaxAmount, o \in Outcomes :
          handleConfirmAction(p, operation, a, o)
    \/ \E o \in Outcomes : handleConfirmActionTx(o)
    \/ \E o \in Outcomes : handleConfirmActionRollback(o)
    \/ \E p \in products, o \in Outcomes : deleteProduct(p, o)
    \/ \E o \in Outcomes : deleteProductRow(o)
    \/ \E t \in Range(transactions), o \in OutcomesThrow : deleteTransaction(t, o)
    \/ \E o \in OutcomesThrow : deleteTransactionRow(o)
    \/ \E o \in OutcomesThrow : deleteTransactionRollback(o)
    \/ Return

SpecMutations == Init /\ [][NextMutations]_vars

\* Each cached product has the stored quantity; the cached transactions are exactly the
\* stored transactions of the active scope.
CachedQuantitiesStored == \A p \in products : StoredQuantity(p.id) = p.quantity
CachedTransactionsStored ==
    Range(transactions) = {t \in sTx : Scope = 0 \/ t.warehouse_id = Scope}

\* C29: after every completed mutation, succeeded, failed, or failed and compensated
\* (a failed compensating write and a Delete Product whose second step failed
\* included), each cached product has the stored quantity and the cached transactions
\* of the active scope are exactly the stored ones.
CachesAgreeWithStore ==
    pc = "done" => (CachedQuantitiesStored /\ CachedTransactionsStored)

\* The two halves of C29.
CachedQuantitiesAgree == pc = "done" => CachedQuantitiesStored
CachedTransactionsAgree == pc = "done" => CachedTransactionsStored

\* ------------------------------------------------------------- reads in flight
\* fetchProducts() and fetchTransactions() as the provider's effect starts them: each
\* query carries the scope in force when it is built, and the store answers it from
\* the rows it holds then.  The response is applied later.
IssuedReads(scope) ==
    {[kind |-> "products", scope |-> scope, products |-> fetchProducts(scope, TRUE),
      transactions |-> <<>>],
     [kind |-> "transactions", scope |-> scope, products |-> {},
      transactions |-> fetchTransactions(scope, TRUE)]}

\* setCurrentWarehouseId from the warehouse selector; the provider's effect starts the
\* reads for the new scope and returns.
setCurrentWarehouseIdRead(id) ==
    /\ pc = "idle" /\ LoadersIdle
    /\ warehouseEnabled
    /\ \E i \in 1..Len(warehouses) : warehouses[i].id = id
    /\ id # currentWarehouse.id
    /\ Cardinality(reads) + 2 <= MaxReads
    /\ currentWarehouseId' = id
    /\ reads' = reads \cup IssuedReads(ScopeOf(warehouses, warehouseEnabled, id))
    /\ UNCHANGED <<storeVars, warehouses, warehouseEnabled, cacheVars, loadPc, pc, op, result,
                   last, configured, uiVars, opening, stats, customDate>>

\* The response of a fetchProducts call: setProducts(data), whatever has happened since
\* the query was sent.
fetchProductsResponse(r) ==
    /\ r \in reads /\ r.kind = "products"
    /\ products' = r.products
    /\ reads' = reads \ {r}
    /\ UNCHANGED <<storeVars, whVars, transactions, allTransactions, loadPc, pc, op, result,
                   last, configured, uiVars, opening, stats, customDate>>

\* The response of a fetchTransactions call: setTransactions(data).
fetchTransactionsResponse(r) ==
    /\ r \in reads /\ r.kind = "transactions"
    /\ transactions' = r.transactions
    /\ reads' = reads \ {r}
    /\ UNCHANGED <<storeVars, whVars, products, allTransactions, loadPc, pc, op, result,
                   last, configured, uiVars, opening, stats, customDate>>

\* A tenant with credentials and two warehouses, a product in the default one, after
\* the loads of the login.
InitReads ==
    /\ \E q \in 1..MaxAmount :
          LET product == [id |-> 1, warehouse_id |-> 1, quantity |-> q]
              initial == [id |-> 1, product_id |-> 1, warehouse_id |-> 1, type |-> "in",
                          amount |-> q, created_at |-> Today]
          IN /\ sProducts = {product} /\ products = {product}
             /\ sTx = {initial}
             /\ transactions = <<initial>> /\ allTransactions = <<initial>>
    /\ sWarehouses = {[id |-> 1, is_default |-> TRUE], [id |-> 2, is_default |-> FALSE]}
    /\ nextId = [w |-> 3, p |-> 2, t |-> 2]
    /\ warehouses = <<[id |-> 1, is_default |-> TRUE], [id |-> 2, is_default |-> FALSE]>>
    /\ warehouseEnabled = TRUE
    /\ currentWarehouseId = 1
    /\ customDate = Today
    /\ reads = {}
    /\ loadPc = [l \in Loaders |-> IF l = "provider" THEN "loaded" ELSE "none"]
    /\ pc = "idle"
    /\ op = NoOp
    /\ result = NoResult
    /\ last = NoLast
    /\ configured = TRUE
    /\ page = [name |-> "home", id |-> 1, from |-> "none"]
    /\ busy = NoBusy
    /\ inflight = {}
    /\ opening = NoOpening
    /\ stats = NoStats

\* Switching the warehouse, the responses of the reads in any order, and Create
\* Product and Adjust Stock in between; every store call succeeds.
NextReads ==
    \/ \E id \in 1..MaxWarehouses : setCurrentWarehouseIdRead(id)
    \/ \E r \in reads : fetchProductsResponse(r)
    \/ \E r \in reads : fetchTransactionsResponse(r)
    \/ \E qty \in 0..MaxAmount : createProduct(qty, "ok")
    \/ createProductTx("ok")
    \/ \E p \in products, operation \in {"add", "subtract"}, a \in 1..MaxAmount :
          handleConfirmAction(p, operation, a, "ok")
    \/ handleConfirmActionTx("ok")
    \/ Return

SpecReads == InitReads /\ [][NextReads]_vars

\* C30: once no read is in flight and no mutation is between two of its store calls,
\* the cached products and transactions are exactly the store's rows of the active
\* warehouse: no response to a read sent for the previous warehouse, or sent before a
\* mutation, has overwritten newer cache contents.
ReadsSettleOnActiveScope ==
    (reads = {} /\ AtRest)
      => /\ products = {p \in sProducts : Scope = 0 \/ p.warehouse_id = Scope}
         /\ Range(transactions) = {t \in sTx : Scope = 0 \/ t.warehouse_id = Scope}

\* C30 for the switch alone: the cached products belong to the active warehouse.
ReadsSettleOnActiveWarehouse ==
    (reads = {} /\ AtRest) => \A p \in products : Scope = 0 \/ p.warehouse_id = Scope
====
